---- MODULE Spec2Model ----
(***************************************************************************)
(* Model of the ECS log formatter of src/src/logging: the process-wide     *)
(* extra-fields store (extra_fields.rs), its deep merge, the Event         *)
(* serialization contract and the format entry point (ecs_logger.rs).      *)
(***************************************************************************)
EXTENDS Integers, Sequences, FiniteSets, TLC

(***************************************************************************)
(* Bounds of the model.                                                    *)
(***************************************************************************)
\* JSON numbers used as leaves are 1..MaxNum.
MaxNum == 1
\* The threads of the host application that call into the formatter.
NumThreads == 2

(***************************************************************************)
(* serde_json::Value.  A value is a record tagged by t; an object carries  *)
(* its Map<String, Value> as a function from key strings to values.        *)
(***************************************************************************)
JNull == [t |-> "null"]
JBool(b) == [t |-> "bool", b |-> b]
JNum(n) == [t |-> "num", n |-> n]
JStr(s) == [t |-> "str", s |-> s]
JArr(a) == [t |-> "arr", a |-> a]
JObj(m) == [t |-> "obj", m |-> m]

\* Option<T>
None == [some |-> FALSE]
Some(x) == [some |-> TRUE, v |-> x]

\* Result<T, E>
Ok(x) == [ok |-> TRUE, v |-> x]
Err(e) == [ok |-> FALSE, e |-> e]

\* The empty Map.
EmptyMap == <<>>

\* Map::insert(k, v) on a map without or with the key k.
MapInsert(m, k, v) ==
    [x \in (DOMAIN m) \cup {k} |-> IF x = k THEN v ELSE m[x]]

(***************************************************************************)
(* extend_json_map: deep merge b into a.  The loop over b's entries is a   *)
(* fold; each entry goes through the three arms of the match.              *)
(***************************************************************************)
RECURSIVE extend_json_map(_, _)
RECURSIVE extend_loop(_, _, _)

\* Faulty variant of the match: two arrays at the same key are concatenated.
extend_entry_concat(a, k, v) ==
    IF k \in DOMAIN a
    THEN IF a[k].t = "obj" /\ v.t = "obj"
         THEN [a EXCEPT ![k] = JObj(extend_json_map(a[k].m, v.m))]
         ELSE IF a[k].t = "arr" /\ v.t = "arr"
              THEN [a EXCEPT ![k] = JArr(a[k].a \o v.a)]
              ELSE [a EXCEPT ![k] = v]
    ELSE MapInsert(a, k, v)

\* Faulty variant of the match: an object at a key of both is replaced, not merged.
extend_entry_shallow(a, k, v) ==
    IF k \in DOMAIN a THEN [a EXCEPT ![k] = v] ELSE MapInsert(a, k, v)

\* One iteration of the loop: match (a.get_mut(k), v).
extend_entry(a, k, v) ==
    IF k \in DOMAIN a
    THEN IF a[k].t = "obj" /\ v.t = "obj"
         THEN [a EXCEPT ![k] = JObj(extend_json_map(a[k].m, v.m))]
         ELSE [a EXCEPT ![k] = v]
    ELSE MapInsert(a, k, v)

\* The first key of a non-empty key set in the map's iteration order.
FirstKey(ks) == CHOOSE k \in ks : TRUE

extend_loop(a, b, ks) ==
    IF ks = {} THEN a
    ELSE LET k == FirstKey(ks)
         IN  extend_loop(extend_entry(a, k, b[k]), b, ks \ {k})

extend_json_map(a, b) == extend_loop(a, b, DOMAIN b)

(***************************************************************************)
(* Strings.  A string is a sequence of chunks; a path holds its components *)
(* and its separators as chunks ("src/server.rs" is <<"src","/","server.rs">>).*)
(***************************************************************************)
Str(s) == <<s>>

\* Represents Elastic Common Schema version.
ECS_VERSION == Str("1.12.1")

\* log::Level::as_str
LevelAsStr(level) ==
    CASE level = "Error" -> Str("ERROR")
      [] level = "Warn"  -> Str("WARN")
      [] level = "Info"  -> Str("INFO")
      [] level = "Debug" -> Str("DEBUG")
      [] level = "Trace" -> Str("TRACE")

RECURSIVE StripTrailing(_)
\* Path components ignore trailing separators and trailing "." components.
StripTrailing(p) ==
    IF p # <<>> /\ p[Len(p)] \in {"/", "."}
    THEN StripTrailing(SubSeq(p, 1, Len(p) - 1))
    ELSE p

\* Faulty variant of Path::file_name: the whole path is kept.
PathFileName_Full(p) == Some(p)

\* Path::file_name: the final component, None when the path has none or ends in "..".
PathFileName(p) ==
    LET q == StripTrailing(p)
    IN  IF q = <<>> \/ q[Len(q)] = ".." THEN None ELSE Some(<<q[Len(q)]>>)

\* Event::new(timestamp, record)
EventNew(timestamp, record) ==
    LET file_path == record.file
    IN  [timestamp   |-> timestamp,
         log_level   |-> LevelAsStr(record.level),
         message     |-> record.args,
         ecs_version |-> ECS_VERSION,
         log_origin  |->
            [file |-> [line |-> record.line,
                       name |-> IF file_path.some THEN PathFileName(file_path.v)
                                                  ELSE None],
             rust |-> [target      |-> record.target,
                       module_path |-> record.module_path,
                       file_path   |-> record.file]]]

(***************************************************************************)
(* #[derive(Serialize)]: a struct serializes to the sequence of its fields *)
(* in declaration order, each a key (after rename) and a serialized value; *)
(* a field with skip_serializing_if = "Option::is_none" is left out when   *)
(* it is None.                                                             *)
(***************************************************************************)
SStruct(fields) == [t |-> "struct", f |-> fields]
Field(k, v) == [k |-> k, v |-> v]

\* Option<T>::serialize: Some(x) as x, None as null.
SerOptNum(o) == IF o.some THEN JNum(o.v) ELSE JNull
SerOptStr(o) == IF o.some THEN JStr(o.v) ELSE JNull

\* Faulty variant: the field is serialized whether it is None or not.
SkipIfNone_Never(k, o, v) == <<Field(k, v)>>

\* A field under skip_serializing_if = "Option::is_none".
SkipIfNone(k, o, v) == IF o.some THEN <<Field(k, v)>> ELSE <<>>

SerLogOriginFile(f) ==
    SStruct(SkipIfNone("line", f.line, SerOptNum(f.line))
            \o SkipIfNone("name", f.name, SerOptStr(f.name)))

SerLogOriginRust(r) ==
    SStruct(<<Field("target", JStr(r.target))>>
            \o SkipIfNone("module_path", r.module_path, SerOptStr(r.module_path))
            \o SkipIfNone("file_path", r.file_path, SerOptStr(r.file_path)))

\* Faulty variant of LogOrigin: the runtime sub-object is renamed to "origin".
SerLogOrigin_Renamed(o) ==
    SStruct(<<Field("file", SerLogOriginFile(o.file)),
              Field("origin", SerLogOriginRust(o.rust))>>)

SerLogOrigin(o) ==
    SStruct(<<Field("file", SerLogOriginFile(o.file)),
              Field("rust", SerLogOriginRust(o.rust))>>)

SerEvent(e) ==
    SStruct(<<Field("@timestamp", JStr(e.timestamp)),
              Field("log.level", JStr(e.log_level)),
              Field("message", JStr(e.message)),
              Field("ecs.version", JStr(e.ecs_version)),
              Field("log.origin", SerLogOrigin(e.log_origin))>>)

\* serde_json::to_value of a serialized struct: SerializeStruct inserts each
\* field into a Map.
RECURSIVE to_value(_)
RECURSIVE FieldsToMap(_, _)
FieldsToMap(fields, m) ==
    IF fields = <<>> THEN m
    ELSE FieldsToMap(Tail(fields),
                     MapInsert(m, Head(fields).k, to_value(Head(fields).v)))

to_value(x) == IF x.t = "struct" THEN JObj(FieldsToMap(x.f, EmptyMap)) ELSE x

\* serde_json::to_string of a serialized struct: the compact JSON text, as a
\* sequence of tokens.
Digit == <<"0", "1", "2", "3", "4", "5", "6", "7", "8", "9">>
RECURSIVE Itoa(_)
Itoa(n) == IF n < 10 THEN <<Digit[n + 1]>>
           ELSE Itoa(n \div 10) \o <<Digit[(n % 10) + 1]>>

Quoted(s) == <<"\"">> \o s \o <<"\"">>

RECURSIVE to_string(_)
RECURSIVE FieldsToString(_, _)
FieldsToString(fields, first) ==
    IF fields = <<>> THEN <<>>
    ELSE (IF first THEN <<>> ELSE <<",">>)
         \o Quoted(Str(Head(fields).k)) \o <<":">> \o to_string(Head(fields).v)
         \o FieldsToString(Tail(fields), FALSE)

to_string(x) ==
    CASE x.t = "struct" -> <<"{">> \o FieldsToString(x.f, TRUE) \o <<"}">>
      [] x.t = "str"    -> Quoted(x.s)
      [] x.t = "num"    -> Itoa(x.n)
      [] x.t = "null"   -> <<"null">>

(***************************************************************************)
(* Bounded JSON values: leaves, objects of depth 1 and of depth 2 over     *)
(* the keys of MergeKeys.                                                  *)
(***************************************************************************)
MergeKeys == {"a", "b"}
Leaves == {JNum(n) : n \in 1..MaxNum} \cup {JArr(<<JNum(1)>>)}
MapsOver(vals) ==
    UNION {[ks -> vals] : ks \in SUBSET MergeKeys}
Values1 == Leaves \cup {JObj(m) : m \in MapsOver(Leaves)}
Maps2 == MapsOver(Values1)

(***************************************************************************)
(* Bounded log records and Events.                                         *)
(***************************************************************************)
Timestamps == {Str("2021-11-24T17:38:21.000098765Z"), Str("2000-01-23T01:23:45.678901200Z")}
Levels == {"Error", "Warn", "Info", "Debug", "Trace"}
FilePaths == {<<"src", "/", "path", "/", "to", "/", "your", "/", "file.rs">>,
              <<"file.rs">>, <<"src", "/">>, <<"src", "/", "..">>, <<"/">>}
ModulePaths == {Str("my_app::path::to::your::file")}
Lines == {144, 1234}
Opt(S) == {None} \cup {Some(x) : x \in S}

\* log::Record, as built by log::Record::builder().
Records ==
    [args : {Str("tracing msg")}, level : Levels, target : {Str("myCustomTarget123")},
     file : Opt(FilePaths), line : Opt(Lines), module_path : Opt(ModulePaths)]

\* Events built field by field, as in test_serialize and test_serialize_with_none.
Events ==
    [timestamp : Timestamps, log_level : {Str("TRACE")}, message : {Str("tracing msg")},
     ecs_version : {ECS_VERSION},
     log_origin :
        [file : [line : Opt(Lines), name : Opt({Str("file.rs")})],
         rust : [target : {Str("myCustomTarget123")},
                 module_path : Opt(ModulePaths),
                 file_path : Opt({<<"src", "/", "path", "/", "to", "/", "your", "/", "file.rs">>})]]]

(***************************************************************************)
(* Inputs of the calls of the concurrent model.                            *)
(***************************************************************************)
Threads == 1..NumThreads
NoThread == 0

\* Values passed to set_extra_fields.  BadKeyMap is the BTreeMap<Vec<u8>, &str>
\* of test_set_extra_fields_err, whose keys are not strings.
BadKeyMap == [t |-> "badkey"]
ExtraA ==
    JObj([k \in {"env", "log.origin"} |->
            IF k = "env" THEN JStr(Str("A"))
            ELSE JObj([j \in {"host"} |-> JStr(Str("A"))])])
ExtraB ==
    JObj([k \in {"env", "message"} |-> JStr(Str("B"))])
SetObjects == {ExtraA, ExtraB}
SetNonObjects == {JNum(42), JStr(Str("x")), JArr(<<JNum(1)>>), JBool(TRUE), JNull}
SetInputs == SetObjects \cup SetNonObjects \cup {BadKeyMap}

\* Records passed to format, and the instant of timestamp::get_timestamp().
FormatRecords ==
    {[args |-> Str("tracing msg"), level |-> "Trace", target |-> Str("myCustomTarget123"),
      file |-> f, line |-> IF f.some THEN Some(1234) ELSE None,
      module_path |-> None] :
        f \in {None, Some(<<"src", "/", "file.rs">>)}}
MOCK_TIMESTAMP == Str("2000-01-23T01:23:45.678901200Z")
get_timestamp == MOCK_TIMESTAMP

\* The errors a sink's write can return.
IoErrors == {"BrokenPipe", "WriteZero"}

VARIABLES
    store,      \* EXTRA_FIELDS: the Option<JsonMap> inside the RwLock
    writer,     \* the thread holding the write guard, or NoThread
    readers,    \* the threads holding a read guard
    poisoned,   \* the RwLock's poison flag
    pc,         \* where each thread is
    loc,        \* the local variables of each thread's call
    lastWrite,  \* history: the call that last assigned the store
    mrg,        \* the deep-merge harness: phase, inputs a and b, results
    ser         \* the serialization harness: phase, record, event, text, value

lockVars == <<writer, readers, poisoned>>
storeVars == <<store, writer, readers, poisoned, pc, loc, lastWrite>>
vars == <<store, writer, readers, poisoned, pc, loc, lastWrite, mrg, ser>>

MrgIdle == [phase |-> "off"]
SerIdle == [phase |-> "off"]
IdleLoc == [op |-> "none"]

\* static EXTRA_FIELDS: RwLock<Option<JsonMap>> = RwLock::new(None), no call running.
StoreInitOver(T) ==
    /\ store = None
    /\ writer = NoThread
    /\ readers = {}
    /\ poisoned = FALSE
    /\ pc = [t \in T |-> "idle"]
    /\ loc = [t \in T |-> IdleLoc]
    /\ lastWrite = [kind |-> "none", arg |-> JNull]

StoreInit == StoreInitOver(Threads)

(***************************************************************************)
(* Event::new and the serialization of an Event.                           *)
(***************************************************************************)
SerInit ==
    /\ StoreInit
    /\ mrg = MrgIdle
    /\ \/ \E ts \in Timestamps, r \in Records :
             ser = [phase |-> "record", timestamp |-> ts, record |-> r]
       \/ \E e \in Events :
             ser = [phase |-> "event", event |-> e]

\* Event::new(timestamp, record)
SerNew ==
    /\ ser.phase = "record"
    /\ ser' = [phase |-> "event", timestamp |-> ser.timestamp, record |-> ser.record,
               event |-> EventNew(ser.timestamp, ser.record)]
    /\ UNCHANGED <<mrg, storeVars>>

\* serde_json::to_string(&event) and serde_json::to_value(event)
SerSerialize ==
    /\ ser.phase = "event"
    /\ ser' = [phase |-> "out", event |-> ser.event,
               text |-> to_string(SerEvent(ser.event)),
               value |-> to_value(SerEvent(ser.event))]
    /\ UNCHANGED <<mrg, storeVars>>

SerNext == SerNew \/ SerSerialize

SerSpec == SerInit /\ [][SerNext]_vars

(***************************************************************************)
(* The deep merge on bounded inputs.                                       *)
(***************************************************************************)
MergeInit ==
    /\ StoreInit
    /\ ser = SerIdle
    /\ mrg \in {[phase |-> "in", a |-> a, b |-> b, once |-> EmptyMap, twice |-> EmptyMap] :
                a \in Maps2, b \in Maps2}

\* extend_json_map(a, b), and once more with the same b.
MergeApply ==
    /\ mrg.phase = "in"
    /\ LET r == extend_json_map(mrg.a, mrg.b)
       IN  mrg' = [mrg EXCEPT !.phase = "out", !.once = r,
                              !.twice = extend_json_map(r, mrg.b)]
    /\ UNCHANGED <<ser, storeVars>>

MergeNext == MergeApply

MergeSpec == MergeInit /\ [][MergeNext]_vars

(***************************************************************************)
(* The extra-fields store (set_extra_fields, clear_extra_fields,           *)
(* merge_extra_fields) and the format entry point, called from threads.    *)
(***************************************************************************)
Unit == "unit"
Pending == [pending |-> TRUE]

\* serde_json::to_value of a value passed to set_extra_fields.
try_to_value(x) ==
    IF x.t = "badkey" THEN Err("key must be a string") ELSE Ok(to_value(x))

\* Faulty variant of set_extra_fields' validation: a non-object is taken as no
\* extra fields instead of being refused.
set_validate_lenient(x) ==
    LET r == try_to_value(x)
    IN  IF ~r.ok THEN Err("InvalidJson")
        ELSE IF r.v.t = "obj" THEN Ok(Some(r.v.m)) ELSE Ok(None)

\* set_extra_fields, before the lock: to_value(extra_fields)? and the match.
set_validate(x) ==
    LET r == try_to_value(x)
    IN  IF ~r.ok THEN Err("InvalidJson")
        ELSE IF r.v.t = "obj" THEN Ok(Some(r.v.m)) ELSE Err("NotObject")

\* Faulty variant of the write lock: a writer does not wait for the readers.
CanWrite_IgnoreReaders == writer = NoThread

\* RwLock::write returns once no guard is held.
CanWrite == writer = NoThread /\ readers = {}

\* RwLock::read returns once no write guard is held.  Whether it also waits
\* for a writer that is waiting is left open by std::sync::RwLock.
CanRead == writer = NoThread

\* Faulty variant of the assignment: the new object is merged into the old one.
Assign_Extend(old, new) ==
    IF old.some /\ new.some THEN Some(extend_json_map(old.v, new.v)) ELSE new

\* *w = json_map
Assign(old, new) == new

\* Faulty variant of merge_extra_fields: the store is unwrapped.
extra_keys_unwrap(st) ==
    IF st.some THEN [panic |-> FALSE, keys |-> DOMAIN st.v]
    ELSE [panic |-> TRUE, keys |-> {}]

\* merge_extra_fields: if let Some(extra_fields) = &*r, the entries to merge.
extra_keys(st) ==
    [panic |-> FALSE, keys |-> IF st.some THEN DOMAIN st.v ELSE {}]

\* What a write to the sink can return: Ok once all of it is written, or an
\* error.
SinkOutcomes == {Ok(Unit)} \cup {Err(e) : e \in IoErrors}

\* Faulty variant of the ? operator: the error is dropped.
Try_Swallow(res) == [ret |-> FALSE, result |-> res]

\* The ? operator: an Err returns from the function.
Try(res) == [ret |-> ~res.ok, result |-> res]

\* Faulty variant of set_extra_fields: the write guard is taken first and the
\* value is validated (and unwrapped) under it, so a bad value panics with
\* the guard held and poisons the lock.
SetEnter_ValidateUnderLock(t) ==
    /\ pc[t] = "idle"
    /\ CanWrite
    /\ \E x \in SetInputs :
         LET r == set_validate(x)
         IN  /\ loc' = [loc EXCEPT ![t] =
                          [op |-> "set", arg |-> x,
                           json_map |-> IF r.ok THEN r.v ELSE None,
                           prev |-> None, result |-> Pending]]
             /\ IF r.ok
                THEN /\ pc' = [pc EXCEPT ![t] = "set_locked"]
                     /\ writer' = t
                     /\ UNCHANGED poisoned
                ELSE /\ pc' = [pc EXCEPT ![t] = "panicked"]
                     /\ poisoned' = TRUE
                     /\ UNCHANGED writer
    /\ UNCHANGED <<store, readers, lastWrite, mrg, ser>>

SetEnter(t) ==
    /\ pc[t] = "idle"
    /\ \E x \in SetInputs :
         LET r == set_validate(x)
         IN  IF r.ok
             THEN /\ pc' = [pc EXCEPT ![t] = "set_wait"]
                  /\ loc' = [loc EXCEPT ![t] =
                               [op |-> "set", arg |-> x, json_map |-> r.v,
                                prev |-> None, result |-> Pending]]
             ELSE /\ pc' = [pc EXCEPT ![t] = "done"]
                  /\ loc' = [loc EXCEPT ![t] =
                               [op |-> "set", arg |-> x, json_map |-> None,
                                prev |-> None, result |-> Err(r.e)]]
    /\ UNCHANGED <<store, lockVars, lastWrite, mrg, ser>>

\* EXTRA_FIELDS.write().unwrap()
SetLock(t) ==
    /\ pc[t] = "set_wait"
    /\ CanWrite
    /\ IF poisoned
       THEN pc' = [pc EXCEPT ![t] = "panicked"] /\ UNCHANGED writer
       ELSE pc' = [pc EXCEPT ![t] = "set_locked"] /\ writer' = t
    /\ UNCHANGED <<store, readers, poisoned, loc, lastWrite, mrg, ser>>

\* *w = json_map
SetStore(t) ==
    /\ pc[t] = "set_locked"
    /\ store' = Assign(store, loc[t].json_map)
    /\ lastWrite' = [kind |-> "set", arg |-> loc[t].arg]
    /\ loc' = [loc EXCEPT ![t].prev = store]
    /\ pc' = [pc EXCEPT ![t] = "set_unlock"]
    /\ UNCHANGED <<lockVars, mrg, ser>>

\* the guard is dropped; Ok(())
SetUnlock(t) ==
    /\ pc[t] = "set_unlock"
    /\ writer' = NoThread
    /\ loc' = [loc EXCEPT ![t].result = Ok(Unit)]
    /\ pc' = [pc EXCEPT ![t] = "done"]
    /\ UNCHANGED <<store, readers, poisoned, lastWrite, mrg, ser>>

ClearEnter(t) ==
    /\ pc[t] = "idle"
    /\ pc' = [pc EXCEPT ![t] = "clear_wait"]
    /\ loc' = [loc EXCEPT ![t] = [op |-> "clear", prev |-> None, result |-> Pending]]
    /\ UNCHANGED <<store, lockVars, lastWrite, mrg, ser>>

\* EXTRA_FIELDS.write().unwrap()
ClearLock(t) ==
    /\ pc[t] = "clear_wait"
    /\ CanWrite
    /\ IF poisoned
       THEN pc' = [pc EXCEPT ![t] = "panicked"] /\ UNCHANGED writer
       ELSE pc' = [pc EXCEPT ![t] = "clear_locked"] /\ writer' = t
    /\ UNCHANGED <<store, readers, poisoned, loc, lastWrite, mrg, ser>>

\* *w = None
ClearStore(t) ==
    /\ pc[t] = "clear_locked"
    /\ store' = Assign(store, None)
    /\ lastWrite' = [kind |-> "clear", arg |-> JNull]
    /\ loc' = [loc EXCEPT ![t].prev = store]
    /\ pc' = [pc EXCEPT ![t] = "clear_unlock"]
    /\ UNCHANGED <<lockVars, mrg, ser>>

\* the guard is dropped
ClearUnlock(t) ==
    /\ pc[t] = "clear_unlock"
    /\ writer' = NoThread
    /\ loc' = [loc EXCEPT ![t].result = Ok(Unit)]
    /\ pc' = [pc EXCEPT ![t] = "done"]
    /\ UNCHANGED <<store, readers, poisoned, lastWrite, mrg, ser>>

\* format, up to the call of merge_extra_fields: Event::new, to_value, the match.
FormatEnter(t) ==
    /\ pc[t] = "idle"
    /\ \E record \in FormatRecords :
         LET event == EventNew(get_timestamp, record)
             event_json_value == to_value(SerEvent(event))
         IN  /\ event_json_value.t = "obj"
             /\ loc' = [loc EXCEPT ![t] =
                          [op |-> "format", record |-> record,
                           event_json_map |-> event_json_value.m,
                           json_map |-> event_json_value.m,
                           todo |-> {}, snap |-> None, sink |-> <<>>,
                           result |-> Pending]]
    /\ pc' = [pc EXCEPT ![t] = "fmt_wait"]
    /\ UNCHANGED <<store, lockVars, lastWrite, mrg, ser>>

\* merge_extra_fields: EXTRA_FIELDS.read().unwrap() and the if let.
MergeLock(t) ==
    /\ pc[t] = "fmt_wait"
    /\ CanRead
    /\ LET r == extra_keys(store)
       IN  IF poisoned \/ r.panic
           THEN /\ pc' = [pc EXCEPT ![t] = "panicked"]
                /\ UNCHANGED <<readers, loc>>
           ELSE /\ pc' = [pc EXCEPT ![t] = "fmt_merge"]
                /\ readers' = readers \cup {t}
                /\ loc' = [loc EXCEPT ![t].todo = r.keys, ![t].snap = store]
    /\ UNCHANGED <<store, writer, poisoned, lastWrite, mrg, ser>>

\* Faulty variant of the merge: an entry is moved out of the extra fields
\* instead of cloned.
MergeStep_Drain(t) ==
    /\ pc[t] = "fmt_merge"
    /\ loc[t].todo # {}
    /\ LET k == FirstKey(loc[t].todo)
       IN  /\ loc' = [loc EXCEPT
                        ![t].todo = @ \ {k},
                        ![t].json_map =
                           IF store.some /\ k \in DOMAIN store.v
                           THEN extend_entry(@, k, store.v[k])
                           ELSE @]
           /\ store' = IF store.some /\ k \in DOMAIN store.v
                       THEN Some([x \in (DOMAIN store.v) \ {k} |-> store.v[x]])
                       ELSE store
    /\ UNCHANGED <<lockVars, pc, lastWrite, mrg, ser>>

\* extend_json_map(&mut json_map, extra_fields): one entry of the top-level loop.
MergeStep(t) ==
    /\ pc[t] = "fmt_merge"
    /\ loc[t].todo # {}
    /\ LET k == FirstKey(loc[t].todo)
       IN  loc' = [loc EXCEPT
                     ![t].todo = @ \ {k},
                     ![t].json_map =
                        IF store.some /\ k \in DOMAIN store.v
                        THEN extend_entry(@, k, store.v[k])
                        ELSE @]
    /\ UNCHANGED <<store, lockVars, pc, lastWrite, mrg, ser>>

\* Faulty variant of merge_extra_fields: the read guard outlives the merge and
\* is still held during the writes to the sink.
MergeUnlock_Hold(t) ==
    /\ pc[t] = "fmt_merge"
    /\ loc[t].todo = {}
    /\ pc' = [pc EXCEPT ![t] = "fmt_doc"]
    /\ UNCHANGED <<store, lockVars, loc, lastWrite, mrg, ser>>

\* merge_extra_fields returns json_map; the read guard is dropped.
MergeUnlock(t) ==
    /\ pc[t] = "fmt_merge"
    /\ loc[t].todo = {}
    /\ readers' = readers \ {t}
    /\ pc' = [pc EXCEPT ![t] = "fmt_doc"]
    /\ UNCHANGED <<store, writer, poisoned, loc, lastWrite, mrg, ser>>

\* serde_json::to_writer(buf.borrow_mut(), &merged_json_map)?
WriteDoc(t) ==
    /\ pc[t] = "fmt_doc"
    /\ \E out \in SinkOutcomes :
         LET r == Try(out)
         IN  /\ loc' = [loc EXCEPT
                          ![t].sink = Append(@, [w |-> "doc", doc |-> loc[t].json_map,
                                                 out |-> out]),
                          ![t].result = IF r.ret THEN r.result ELSE @]
             /\ pc' = [pc EXCEPT ![t] = IF r.ret THEN "done" ELSE "fmt_nl"]
    /\ UNCHANGED <<store, lockVars, lastWrite, mrg, ser>>

\* writeln!(buf)?; Ok(())
WriteNewline(t) ==
    /\ pc[t] = "fmt_nl"
    /\ \E out \in SinkOutcomes :
         LET r == Try(out)
         IN  loc' = [loc EXCEPT
                       ![t].sink = Append(@, [w |-> "nl", doc |-> EmptyMap, out |-> out]),
                       ![t].result = IF r.ret THEN r.result ELSE Ok(Unit)]
    /\ pc' = [pc EXCEPT ![t] = "done"]
    /\ UNCHANGED <<store, lockVars, lastWrite, mrg, ser>>

\* The call returns to its caller; its locals are gone.
Return(t) ==
    /\ pc[t] = "done"
    /\ pc' = [pc EXCEPT ![t] = "idle"]
    /\ loc' = [loc EXCEPT ![t] = IdleLoc]
    /\ UNCHANGED <<store, lockVars, lastWrite, mrg, ser>>

Init ==
    /\ StoreInit
    /\ mrg = MrgIdle
    /\ ser = SerIdle

Next ==
    \E t \in Threads :
        \/ SetEnter(t) \/ SetLock(t) \/ SetStore(t) \/ SetUnlock(t)
        \/ ClearEnter(t) \/ ClearLock(t) \/ ClearStore(t) \/ ClearUnlock(t)
        \/ FormatEnter(t) \/ MergeLock(t) \/ MergeStep(t) \/ MergeUnlock(t)
        \/ WriteDoc(t) \/ WriteNewline(t)
        \/ Return(t)

Spec == Init /\ [][Next]_vars

(***************************************************************************)
(* One configuration thread and the logging threads, scheduled fairly: a   *)
(* thread that can take a step eventually takes one, and a lock that is    *)
(* free again and again is eventually taken by a thread waiting for it.    *)
(***************************************************************************)
ConfigThread == 1
FairThreads == 1..(NumThreads + 1)
LoggingThreads == FairThreads \ {ConfigThread}

ConfigNext(t) ==
    \/ SetEnter(t) \/ SetLock(t) \/ SetStore(t) \/ SetUnlock(t)
    \/ ClearEnter(t) \/ ClearLock(t) \/ ClearStore(t) \/ ClearUnlock(t)
    \/ Return(t)

LoggingNext(t) ==
    \/ FormatEnter(t) \/ MergeLock(t) \/ MergeStep(t) \/ MergeUnlock(t)
    \/ WriteDoc(t) \/ WriteNewline(t)
    \/ Return(t)

FairInit ==
    /\ StoreInitOver(FairThreads)
    /\ mrg = MrgIdle
    /\ ser = SerIdle

FairNext ==
    \/ ConfigNext(ConfigThread)
    \/ \E t \in LoggingThreads : LoggingNext(t)

FairSpec ==
    /\ FairInit
    /\ [][FairNext]_vars
    /\ WF_vars(ConfigNext(ConfigThread))
    /\ \A t \in LoggingThreads : WF_vars(LoggingNext(t))
    /\ SF_vars(SetLock(ConfigThread))
    /\ SF_vars(ClearLock(ConfigThread))

(***************************************************************************)
(* Claims about the extra-fields store and the format entry point.         *)
(***************************************************************************)
\* The extra fields st (None, or Some object) merged on top of base.
MergedWith(base, st) == IF st.some THEN extend_json_map(base, st.v) ELSE base

\* The values the store can take: None, or the object of a successful set.
StoreValues == {None} \cup {Some(x.m) : x \in SetObjects}

\* The merge of thread t's format call is over.
Merged(t) == loc[t].op = "format" /\ pc[t] \in {"fmt_doc", "fmt_nl", "done"}

\* C1: under any interleaving of set_extra_fields, clear_extra_fields and
\* format calls, the extra fields a format call merges are exactly one
\* complete store value (the full object of one successful set, or none): the
\* store does not change while a call reads it, the merged map is the event
\* map deep-merged with the value read, and no call panics.
C1_OneCompleteSnapshot ==
    \A t \in Threads :
        /\ pc[t] # "panicked"
        /\ t \in readers => store = loc[t].snap
        /\ Merged(t) =>
              /\ loc[t].snap \in StoreValues
              /\ loc[t].json_map = MergedWith(loc[t].event_json_map, loc[t].snap)
              /\ \E st \in StoreValues :
                    loc[t].json_map = MergedWith(loc[t].event_json_map, st)

\* A format call merged ExtraA whole (its env and its log.origin.host) while
\* another call has since replaced the store by ExtraB.
C1_Witness ==
    \E t \in Threads :
        /\ Merged(t)
        /\ loc[t].snap = Some(ExtraA.m)
        /\ store = Some(ExtraB.m)
        /\ loc[t].json_map["env"] = JStr(Str("A"))
        /\ loc[t].json_map["log.origin"].m["host"] = JStr(Str("A"))
        /\ "rust" \in DOMAIN loc[t].json_map["log.origin"].m

\* C2: the store holds exactly the object of the most recent successful set
\* if no clear followed it, and None otherwise (never set, or cleared since);
\* a set replaces the whole value, so no key of the previous object survives
\* unless the new object has it; a clear leaves None whatever was there,
\* None included.
C2_StoreIsLastSetOrNone ==
    /\ store = (IF lastWrite.kind = "set" THEN Some(lastWrite.arg.m) ELSE None)
    /\ \A t \in Threads :
          /\ pc[t] = "set_unlock" =>
                /\ store = Some(loc[t].arg.m)
                /\ loc[t].prev.some =>
                      \A k \in (DOMAIN loc[t].prev.v) \ (DOMAIN loc[t].arg.m) :
                          k \notin DOMAIN store.v
          /\ pc[t] = "clear_unlock" => store = None

\* A set of ExtraB has just replaced ExtraA: ExtraA's key log.origin is gone.
C2_Witness ==
    \E t \in Threads :
        /\ pc[t] = "set_unlock"
        /\ loc[t].prev = Some(ExtraA.m)
        /\ loc[t].arg = ExtraB
        /\ store = Some(ExtraB.m)
        /\ "log.origin" \notin DOMAIN store.v

\* Thread t's call is a set_extra_fields of a value that is not an object.
FailingSet(t) == loc[t].op = "set" /\ loc[t].arg \notin SetObjects

\* C3: a failing set_extra_fields call leaves the store (and its lock) as it
\* was in every step it takes, and fails with InvalidJson when the value
\* cannot be serialized to JSON and with NotObject when it serializes to a
\* number, string, array, bool or null.
C3_FailingSetLeavesStore ==
    /\ [][\A t \in Threads :
            (pc'[t] # pc[t] /\ (FailingSet(t) \/ FailingSet(t)'))
               => /\ store' = store
                  /\ writer' = writer /\ readers' = readers /\ poisoned' = poisoned
                  /\ lastWrite' = lastWrite]_vars
    /\ [](\A t \in Threads :
            (pc[t] = "done" /\ loc[t].op = "set") =>
               /\ loc[t].arg = BadKeyMap => loc[t].result = Err("InvalidJson")
               /\ loc[t].arg \in SetNonObjects => loc[t].result = Err("NotObject")
               /\ loc[t].arg \in SetObjects => loc[t].result = Ok(Unit))

\* set_extra_fields(42) has failed with NotObject and the store still holds
\* the object set before.
C3_Witness ==
    \E t \in Threads :
        /\ pc[t] = "done"
        /\ loc[t].op = "set"
        /\ loc[t].arg = JNum(42)
        /\ loc[t].result = Err("NotObject")
        /\ store = Some(ExtraA.m)

\* C6: a format call that finds the store None does not panic or fail for
\* that, and the document it writes is exactly the serialized Event: no key
\* added, removed or changed.
C6_NoExtraFieldsIsSilent ==
    \A t \in Threads :
        /\ pc[t] # "panicked"
        /\ (Merged(t) /\ ~loc[t].snap.some) =>
              LET event == to_value(SerEvent(EventNew(get_timestamp, loc[t].record)))
              IN  /\ loc[t].json_map = event.m
                  /\ \A i \in 1..Len(loc[t].sink) :
                        loc[t].sink[i].w = "doc" => loc[t].sink[i].doc = event.m
                  /\ (pc[t] = "done" /\ ~loc[t].result.ok) =>
                        loc[t].result = loc[t].sink[Len(loc[t].sink)].out

\* After a clear, a format call found the store None and wrote its line.
C6_Witness ==
    \E t \in Threads :
        /\ pc[t] = "done"
        /\ loc[t].op = "format"
        /\ ~loc[t].snap.some
        /\ lastWrite.kind = "clear"
        /\ loc[t].result = Ok(Unit)
        /\ Len(loc[t].sink) = 2
        /\ DOMAIN loc[t].sink[1].doc =
              {"@timestamp", "log.level", "message", "ecs.version", "log.origin"}

\* C7: a format call returns Ok only if the whole document and then the
\* newline were written; if either write fails it returns that write's error;
\* it writes each of the two at most once and nothing after a failure, and a
\* call that has returned keeps nothing.
C7_SinkErrorsSurface ==
    \A t \in Threads :
        /\ pc[t] = "idle" => loc[t] = IdleLoc
        /\ (pc[t] = "done" /\ loc[t].op = "format") =>
              LET sk == loc[t].sink
              IN  /\ Len(sk) \in {1, 2}
                  /\ sk[1].w = "doc" /\ sk[1].doc = loc[t].json_map
                  /\ Len(sk) = 2 => (sk[1].out.ok /\ sk[2].w = "nl")
                  /\ loc[t].result.ok <=> (Len(sk) = 2 /\ sk[1].out.ok /\ sk[2].out.ok)
                  /\ ~loc[t].result.ok => loc[t].result = sk[Len(sk)].out

\* The document was written and the newline failed: format returned that error.
C7_Witness ==
    \E t \in Threads :
        /\ pc[t] = "done"
        /\ loc[t].op = "format"
        /\ Len(loc[t].sink) = 2
        /\ loc[t].sink[1].out = Ok(Unit)
        /\ loc[t].sink[2].out = Err("BrokenPipe")
        /\ loc[t].result = Err("BrokenPipe")

\* Thread t takes a step of a format call.
FormatStep(t) ==
    /\ <<pc[t], loc[t]>> # <<pc'[t], loc'[t]>>
    /\ loc[t].op = "format" \/ loc'[t].op = "format"

\* C12: merging never changes the overlay: no step of a format call changes
\* the store, so format calls with no set or clear between them find the
\* same extra fields, and each merges exactly the store it found; only the
\* call's own map gains or changes keys (it keeps every key of the event).
C12_FormatLeavesStore ==
    /\ [][\A t \in Threads :
            FormatStep(t) =>
               /\ store' = store
               /\ lastWrite' = lastWrite
               /\ (pc[t] = "fmt_merge" /\ pc'[t] = "fmt_doc") =>
                     loc'[t].json_map = MergedWith(loc[t].event_json_map, store')]_vars
    /\ [](\A t \in Threads :
            Merged(t) => (DOMAIN loc[t].event_json_map) \subseteq (DOMAIN loc[t].json_map))

\* Two format calls have merged ExtraA, one after the other took its
\* snapshot, and the store still holds ExtraA whole.
C12_Witness ==
    /\ store = Some(ExtraA.m)
    /\ \A t \in Threads :
          /\ Merged(t)
          /\ loc[t].snap = Some(ExtraA.m)
          /\ loc[t].json_map["env"] = JStr(Str("A"))
          /\ "host" \in DOMAIN loc[t].json_map["log.origin"].m

\* C13: a format call holds the read guard only while merging and has
\* dropped it before it starts writing to the sink: a call in (or blocked
\* in) its sink write holds no lock, so a set or clear can take the write
\* guard meanwhile.
C13_NoLockDuringSinkWrite ==
    /\ \A t \in Threads :
          /\ t \in readers => pc[t] = "fmt_merge"
          /\ pc[t] \in {"fmt_doc", "fmt_nl"} => (t \notin readers /\ writer # t)
    /\ (\A t \in Threads : pc[t] \in {"idle", "done", "set_wait", "clear_wait",
                                      "fmt_wait", "fmt_doc", "fmt_nl"})
          => (writer = NoThread /\ readers = {})

\* While one call is in its sink write, another holds the write guard and
\* has assigned the store.
C13_Witness ==
    \E t, u \in Threads :
        /\ pc[t] = "fmt_nl"
        /\ pc[u] = "set_unlock"
        /\ writer = u
        /\ loc[t].snap # store

\* Thread t holds a guard of the store's lock.
HoldsLock(t) == writer = t \/ t \in readers

\* C14: no call fails or panics while it holds the store lock: a guard is
\* held only across the assignment or the merge, a set validates its value
\* before taking the write guard and a failing set never takes it; so the
\* lock is never poisoned, every lock acquisition succeeds and no call
\* panics.
C14_LockNeverPoisoned ==
    /\ ~poisoned
    /\ \A t \in Threads :
          /\ pc[t] # "panicked"
          /\ HoldsLock(t) <=>
                pc[t] \in {"set_locked", "set_unlock", "clear_locked", "clear_unlock",
                           "fmt_merge"}
          /\ FailingSet(t) => (pc[t] = "done" /\ ~loc[t].result.ok)
          /\ (pc[t] \in {"set_wait", "set_locked", "set_unlock"}) =>
                (loc[t].arg \in SetObjects /\ loc[t].json_map = Some(loc[t].arg.m))

\* A set has failed with NotObject, and after it another call has taken the
\* write guard.
C14_Witness ==
    \E t, u \in Threads :
        /\ pc[t] = "done"
        /\ FailingSet(t)
        /\ loc[t].result = Err("NotObject")
        /\ pc[u] = "clear_locked"
        /\ writer = u
        /\ ~poisoned

RECURSIVE IsDeepMerge(_, _, _)
\* r is the deep merge of overlay into base, stated key by key.
IsDeepMerge(base, overlay, r) ==
    /\ DOMAIN r = (DOMAIN base) \cup (DOMAIN overlay)
    /\ \A k \in DOMAIN r :
          IF k \notin DOMAIN overlay THEN r[k] = base[k]
          ELSE IF k \notin DOMAIN base THEN r[k] = overlay[k]
          ELSE IF base[k].t = "obj" /\ overlay[k].t = "obj"
               THEN /\ r[k].t = "obj"
                    /\ IsDeepMerge(base[k].m, overlay[k].m, r[k].m)
               ELSE r[k] = overlay[k]

\* C4: for any two JSON objects base and overlay, the deep merge has the
\* union of both key sets; a key only in base keeps base's value, a key only
\* in overlay takes overlay's value, a key in both whose values are both
\* objects holds their recursive deep merge, and a key in both with a
\* non-object on either side takes overlay's value (arrays are replaced).
C4_DeepMergeLaw ==
    mrg.phase = "out" => IsDeepMerge(mrg.a, mrg.b, mrg.once)

\* A merge that recursed into an object at key "a" (keeping a's "a" and
\* gaining b's "b" inside it) and replaced an array at key "b" by a number.
C4_Witness ==
    /\ mrg.phase = "out"
    /\ mrg.a = [k \in {"a", "b"} |->
                  IF k = "a" THEN JObj([j \in {"a"} |-> JNum(1)])
                             ELSE JArr(<<JNum(1)>>)]
    /\ mrg.b = [k \in {"a", "b"} |->
                  IF k = "a" THEN JObj([j \in {"b"} |-> JArr(<<JNum(1)>>)])
                             ELSE JNum(1)]
    /\ mrg.once = [k \in {"a", "b"} |->
                  IF k = "a" THEN JObj([j \in {"a", "b"} |->
                                         IF j = "a" THEN JNum(1) ELSE JArr(<<JNum(1)>>)])
                             ELSE JNum(1)]

\* C5: the deep merge applied twice with the same overlay yields the same
\* result as applied once, for every base and overlay.
C5_MergeTwiceSameAsOnce ==
    mrg.phase = "out" => mrg.twice = mrg.once

\* The overlay collides with an object nested in base (a scalar over an
\* object) and with a scalar in base (an object over an array), and the
\* merge changed base.
C5_Witness ==
    /\ mrg.phase = "out"
    /\ "a" \in DOMAIN mrg.a /\ "a" \in DOMAIN mrg.b
    /\ "b" \in DOMAIN mrg.a /\ "b" \in DOMAIN mrg.b
    /\ mrg.a["a"].t = "obj" /\ mrg.b["a"].t = "num"
    /\ mrg.a["b"].t = "arr" /\ mrg.b["b"].t = "obj"
    /\ mrg.once # mrg.a
    /\ mrg.twice = mrg.once
(***************************************************************************)
(* Claims about the serialization of an Event.                             *)
(***************************************************************************)
\* The tokens of a text that are the literal null.
HasNullToken(text) == \E i \in 1..Len(text) : text[i] = "null"

\* The text holds the key k (quoted and followed by a colon).
HasKeyToken(text, k) ==
    \E i \in 1..Len(text) :
        /\ i + 3 <= Len(text)
        /\ text[i] = "\"" /\ text[i + 1] = k /\ text[i + 2] = "\"" /\ text[i + 3] = ":"

\* The text holds the tokens toks in a row.
HasTokens(text, toks) ==
    \E i \in 0..(Len(text) - Len(toks)) :
        \A j \in 1..Len(toks) : text[i + j] = toks[j]

\* C8: for every combination of present and absent optional Event fields
\* (file line, file name, module_path, file_path) the serialized Event has a
\* key exactly for each present field and never a null for an absent one;
\* the nested objects always appear, so with both file fields absent
\* log.origin.file is {} and the runtime sub-object still carries target.
C8_AbsentFieldsOmitted ==
    ser.phase = "out" =>
        LET e == ser.event
            origin == ser.value.m["log.origin"].m
            file == origin["file"].m
            rust == origin["rust"].m
        IN  /\ DOMAIN origin = {"file", "rust"}
            /\ origin["file"].t = "obj" /\ origin["rust"].t = "obj"
            /\ ("line" \in DOMAIN file) <=> e.log_origin.file.line.some
            /\ ("name" \in DOMAIN file) <=> e.log_origin.file.name.some
            /\ ("module_path" \in DOMAIN rust) <=> e.log_origin.rust.module_path.some
            /\ ("file_path" \in DOMAIN rust) <=> e.log_origin.rust.file_path.some
            /\ DOMAIN file \subseteq {"line", "name"}
            /\ DOMAIN rust \subseteq {"target", "module_path", "file_path"}
            /\ "target" \in DOMAIN rust /\ rust["target"] = JStr(e.log_origin.rust.target)
            /\ \A k \in DOMAIN file : file[k].t # "null"
            /\ \A k \in DOMAIN rust : rust[k].t # "null"
            /\ HasKeyToken(ser.text, "line") <=> e.log_origin.file.line.some
            /\ HasKeyToken(ser.text, "name") <=> e.log_origin.file.name.some
            /\ HasKeyToken(ser.text, "module_path") <=> e.log_origin.rust.module_path.some
            /\ HasKeyToken(ser.text, "file_path") <=> e.log_origin.rust.file_path.some
            /\ ~HasNullToken(ser.text)
            /\ (~e.log_origin.file.line.some /\ ~e.log_origin.file.name.some)
                  => /\ file = EmptyMap
                     /\ HasTokens(ser.text, <<"\"", "file", "\"", ":", "{", "}">>)

\* An Event with both file fields and file_path absent and module_path
\* present has been serialized: file is {} and the runtime sub-object holds
\* target and module_path.
C8_Witness ==
    /\ ser.phase = "out"
    /\ ~ser.event.log_origin.file.line.some
    /\ ~ser.event.log_origin.file.name.some
    /\ ser.event.log_origin.rust.module_path.some
    /\ ~ser.event.log_origin.rust.file_path.some
    /\ ser.value.m["log.origin"].m["file"] = JObj(EmptyMap)
    /\ DOMAIN ser.value.m["log.origin"].m["rust"].m = {"target", "module_path"}

\* The Event of test_serialize: every optional field present.
FullEvent ==
    [timestamp |-> Str("2021-11-24T17:38:21.000098765Z"),
     log_level |-> Str("TRACE"),
     message |-> Str("tracing msg"),
     ecs_version |-> Str("1.12.1"),
     log_origin |->
        [file |-> [line |-> Some(1234), name |-> Some(Str("file.rs"))],
         rust |-> [target |-> Str("myCustomTarget123"),
                   module_path |-> Some(Str("my_app::path::to::your::file")),
                   file_path |-> Some(<<"src", "/", "path", "/", "to", "/", "your", "/", "file.rs">>)]]]

\* The example line, with the runtime sub-object under the key runtimeKey.
ExampleLine(runtimeKey) ==
    <<"{", "\"", "@timestamp", "\"", ":", "\"", "2021-11-24T17:38:21.000098765Z", "\"", ",",
           "\"", "log.level", "\"", ":", "\"", "TRACE", "\"", ",",
           "\"", "message", "\"", ":", "\"", "tracing msg", "\"", ",",
           "\"", "ecs.version", "\"", ":", "\"", "1.12.1", "\"", ",",
           "\"", "log.origin", "\"", ":",
           "{", "\"", "file", "\"", ":",
                "{", "\"", "line", "\"", ":", "1", "2", "3", "4", ",",
                     "\"", "name", "\"", ":", "\"", "file.rs", "\"", "}", ",",
                "\"", runtimeKey, "\"", ":",
                "{", "\"", "target", "\"", ":", "\"", "myCustomTarget123", "\"", ",",
                     "\"", "module_path", "\"", ":", "\"", "my_app::path::to::your::file", "\"", ",",
                     "\"", "file_path", "\"", ":",
                          "\"", "src", "/", "path", "/", "to", "/", "your", "/", "file.rs", "\"",
                "}",
           "}",
      "}">>

\* C9 (as stated): serializing an Event with all optional fields present
\* yields exactly the example line, with the runtime sub-object under the
\* key "origin".
C9_ExampleLineOrigin ==
    (ser.phase = "out" /\ ser.event = FullEvent) => ser.text = ExampleLine("origin")

\* C9 (amended): serializing an Event with all optional fields present yields
\* the example line with top-level keys @timestamp, log.level, message,
\* ecs.version, log.origin in that order and no others, log.origin holding
\* file (line, name) and the runtime sub-object (target, module_path,
\* file_path) under the key "rust".
C9_ExampleLineRust ==
    (ser.phase = "out" /\ ser.event = FullEvent) =>
        /\ ser.text = ExampleLine("rust")
        /\ DOMAIN ser.value.m =
              {"@timestamp", "log.level", "message", "ecs.version", "log.origin"}

\* The Event of test_serialize has been serialized.
C9_Witness ==
    /\ ser.phase = "out"
    /\ ser.event = FullEvent
    /\ Len(ser.text) = Len(ExampleLine("rust"))
(***************************************************************************)
(* Claims about Event::new.                                                *)
(***************************************************************************)
\* Chunk i of path p is its final component: a name, with only separators
\* and "." after it.
IsFinalComponent(p, i) ==
    /\ p[i] \notin {"/", ".", ".."}
    /\ \A j \in (i + 1)..Len(p) : p[j] \in {"/", "."}

\* C11: an Event built from a log record takes its file name from the final
\* component of the record's file path only (absent when the record has no
\* file, and when the path has no final component to name: a root, or a path
\* ending in ".."), while file_path keeps the full path; line, module_path
\* and target are copied unchanged, log_level is the uppercase level name,
\* ecs_version is 1.12.1 and timestamp is the instant supplied.
C11_EventFromRecord ==
    (ser.phase = "event" /\ "record" \in DOMAIN ser) =>
        LET e == ser.event
            r == ser.record
            name == e.log_origin.file.name
        IN  /\ ~r.file.some => ~name.some
            /\ r.file.some =>
                  /\ name.some <=> \E i \in 1..Len(r.file.v) : IsFinalComponent(r.file.v, i)
                  /\ name.some =>
                        /\ Len(name.v) = 1
                        /\ \E i \in 1..Len(r.file.v) :
                              IsFinalComponent(r.file.v, i) /\ name.v[1] = r.file.v[i]
            /\ e.log_origin.rust.file_path = r.file
            /\ e.log_origin.file.line = r.line
            /\ e.log_origin.rust.module_path = r.module_path
            /\ e.log_origin.rust.target = r.target
            /\ e.message = r.args
            /\ e.log_level =
                  (CASE r.level = "Error" -> <<"ERROR">>
                     [] r.level = "Warn"  -> <<"WARN">>
                     [] r.level = "Info"  -> <<"INFO">>
                     [] r.level = "Debug" -> <<"DEBUG">>
                     [] r.level = "Trace" -> <<"TRACE">>)
            /\ e.ecs_version = <<"1.12.1">>
            /\ e.timestamp = ser.timestamp

\* An Event was built from a record whose file is src/path/to/your/file.rs:
\* its name is file.rs and its file_path the whole path.
C11_Witness ==
    /\ ser.phase = "event"
    /\ "record" \in DOMAIN ser
    /\ ser.record.file = Some(<<"src", "/", "path", "/", "to", "/", "your", "/", "file.rs">>)
    /\ ser.record.level = "Error"
    /\ ser.event.log_origin.file.name = Some(<<"file.rs">>)
    /\ ser.event.log_origin.rust.file_path = ser.record.file
    /\ ser.event.log_level = <<"ERROR">>
====
